---- MODULE Spec2Model ----
(***************************************************************************)
(* A model of ivy.reduce (functional/ivy/experimental/general.py): the     *)
(* N-dimensional reduction that folds a binary function along one or more  *)
(* axes.  An array is a record of its shape, its elements in row-major     *)
(* (C) order and its dtype; a primitive that raises returns a record with  *)
(* ok = FALSE.  One behaviour of the model is one call of reduce.          *)
(***************************************************************************)
EXTENDS Integers, Sequences, FiniteSets

\* ------------------------------------------------------------------ bounds
\* Largest rank of the operand.
MaxRank == 2
\* Largest size of a dimension (sizes are drawn from 0..MaxDim).
MaxDim == 2

\* --------------------------------------------------------------- sequences
RECURSIVE Prod(_)
Prod(s) == IF s = <<>> THEN 1 ELSE Head(s) * Prod(Tail(s))

Range(s) == {s[k] : k \in DOMAIN s}

\* s with the entry at (1-based) position p deleted.
RemoveAt(s, p) == SubSeq(s, 1, p - 1) \o SubSeq(s, p + 1, Len(s))

\* Python's s[:hi] and s[lo:] on a tuple, negative bounds counted from the end.
PyClamp(s, k) ==
    LET j == IF k < 0 THEN k + Len(s) ELSE k
    IN  IF j < 0 THEN 0 ELSE IF j > Len(s) THEN Len(s) ELSE j
PySliceTo(s, hi) == SubSeq(s, 1, PyClamp(s, hi))
PySliceFrom(s, lo) == SubSeq(s, PyClamp(s, lo) + 1, Len(s))
\* Python's s[k] for an index the tuple has (-len <= k < len).
PyIndex(s, k) == IF k < 0 THEN s[k + Len(s) + 1] ELSE s[k + 1]

\* ------------------------------------------------------------------ arrays
Arr(shape, data, dtype) ==
    [ok |-> TRUE, err |-> "", shape |-> shape, data |-> data, dtype |-> dtype]
Raise(e) ==
    [ok |-> FALSE, err |-> e, shape |-> <<>>, data |-> <<>>, dtype |-> ""]

Ndim(x) == Len(x.shape)
Size(x) == Len(x.data)

\* int16 keeps its width (two's complement); every value of the model is far
\* inside the range of int32 and is an integer the float dtypes hold exactly.
Wrap(v, dtype) ==
    IF dtype = "int16" THEN ((v + 32768) % 65536) - 32768 ELSE v

\* The dtype of a binary operation on two arrays of these dtypes.
Promote(d1, d2) ==
    IF d1 = d2 THEN d1
    ELSE IF {d1, d2} = {"int16", "int32"} THEN "int32"
    ELSE IF {d1, d2} \subseteq {"int16", "int32", "float32"} THEN
         IF "int32" \in {d1, d2} THEN "float64" ELSE "float32"
    ELSE "float64"

\* Row-major strides of a shape.
Strides(shape) == [k \in 1..Len(shape) |-> Prod(SubSeq(shape, k + 1, Len(shape)))]

\* ndarray.transpose(order): result axis k is source axis order[k] (0-based).
Transpose(x, order) ==
    LET n        == Ndim(x)
        newshape == [k \in 1..n |-> x.shape[order[k] + 1]]
        old      == Strides(x.shape)
        new      == Strides(newshape)
        Src(j)   ==
            LET RECURSIVE Acc(_)
                Acc(k) == IF k = 0 THEN 0
                          ELSE ((j \div new[k]) % newshape[k]) * old[order[k] + 1]
                               + Acc(k - 1)
            IN  Acc(n)
    IN  Arr(newshape, [j \in 1..Size(x) |-> x.data[Src(j - 1) + 1]], x.dtype)

\* moveaxis(x, source, destination): an axis outside [-ndim, ndim) raises.
moveaxis(x, source, destination) ==
    LET n == Ndim(x) IN
    IF source \notin (-n)..(n - 1) \/ destination \notin (-n)..(n - 1)
    THEN Raise("AxisError")
    ELSE LET src    == IF source < 0 THEN source + n ELSE source
             dst    == IF destination < 0 THEN destination + n ELSE destination
             others == SelectSeq([k \in 1..n |-> k - 1], LAMBDA a : a # src)
             order  == SubSeq(others, 1, dst) \o <<src>>
                       \o SubSeq(others, dst + 1, Len(others))
         IN  Transpose(x, order)

\* How an array library answers a reshape of an empty array whose -1 stands
\* beside a 0, where every size fits the -1: some refuse it, some pick a size.
\* Neither the code nor its documentation settles which.
Backends == {"refuses", "infers"}

\* reshape(x, shape): one entry of shape may be -1 and is then inferred; the
\* sizes must agree.  infers tells whether the library picks a size for a -1
\* beside a 0 (the size it picks is not observable: the array has no rows).
reshape(x, shape, infers) ==
    LET unknown == {k \in DOMAIN shape : shape[k] = -1}
        known   == Prod(SelectSeq(shape, LAMBDA d : d # -1))
        Filled(n) == Arr([k \in DOMAIN shape |->
                             IF shape[k] = -1 THEN n ELSE shape[k]],
                         x.data, x.dtype)
    IN  IF Cardinality(unknown) > 1 THEN Raise("ValueError")
        ELSE IF unknown = {} THEN
             IF known = Size(x) THEN Arr(shape, x.data, x.dtype)
             ELSE Raise("ValueError")
        ELSE IF known = 0 THEN
             IF Size(x) = 0 /\ infers THEN Filled(1) ELSE Raise("ValueError")
        ELSE IF Size(x) % known # 0 THEN Raise("ValueError")
        ELSE Filled(Size(x) \div known)

\* expand_dims(x, axis): size-one dimensions at the positions axis, which
\* index the result; out-of-range or repeated positions raise.
expand_dims(x, axis) ==
    LET out  == Len(axis) + Ndim(x)
        norm == [k \in DOMAIN axis |-> IF axis[k] < 0 THEN axis[k] + out ELSE axis[k]]
        RECURSIVE Build(_, _)
        Build(p, rest) ==
            IF p = out THEN <<>>
            ELSE IF p \in Range(norm) THEN <<1>> \o Build(p + 1, rest)
            ELSE <<Head(rest)>> \o Build(p + 1, Tail(rest))
    IN  IF \E k \in DOMAIN axis : axis[k] \notin (-out)..(out - 1)
        THEN Raise("AxisError")
        ELSE IF Cardinality(Range(norm)) # Len(norm) THEN Raise("ValueError")
        ELSE Arr(Build(0, x.shape), x.data, x.dtype)

\* x.astype(dtype)
astype(x, dtype) == Arr(x.shape, [j \in DOMAIN x.data |-> Wrap(x.data[j], dtype)], dtype)

\* --------------------------------------------------------------- the fold
\* The binary functions a caller passes as func.
Funcs == {"add", "subtract"}
Scalar(func, u, v) == IF func = "add" THEN u + v ELSE u - v

\* func(a, b) on arrays: elementwise, a 0-d array broadcast against the other
\* operand, the result in the promoted dtype.
ApplyFunc(func, a, b) ==
    LET dt    == Promote(a.dtype, b.dtype)
        shape == IF a.shape = <<>> THEN b.shape ELSE a.shape
        A(j)  == IF a.shape = <<>> THEN a.data[1] ELSE a.data[j]
        B(j)  == IF b.shape = <<>> THEN b.data[1] ELSE b.data[j]
    IN  Arr(shape, [j \in 1..Prod(shape) |-> Wrap(Scalar(func, A(j), B(j)), dt)], dt)

\* Iterating a 2-D array yields its rows.
Rows(temp) ==
    LET m == temp.shape[2]
    IN  [r \in 1..temp.shape[1] |->
            Arr(<<m>>, SubSeq(temp.data, (r - 1) * m + 1, r * m), temp.dtype)]

\* functools.reduce(func, sequence, initial): a left fold.
RECURSIVE functools_reduce(_, _, _)
functools_reduce(func, seq, initial) ==
    IF seq = <<>> THEN initial
    ELSE functools_reduce(func, Tail(seq), ApplyFunc(func, initial, Head(seq)))

\* ivy.array(init_value) of a Python int.
ivy_array(v) == Arr(<<>>, <<v>>, "int32")

\* ------------------------------------------------------- the steps of reduce
\* axes = (axes,) if isinstance(axes, int) else axes
WrapAxes(axes) == axes.seq

\* [a + operand.ndim if a < 0 else a for a in axes]
ResolveAxes(axes, ndim) == [k \in DOMAIN axes |-> IF axes[k] < 0 THEN axes[k] + ndim ELSE axes[k]]

\* Variant: the axes kept in the order the caller gave.
SortedReverse_Unsorted(s) == s

\* Variant: sorted(axes), the lowest axis first.
RECURSIVE SortedReverse_Ascending(_)
SortedReverse_Ascending(s) ==
    IF s = <<>> THEN <<>>
    ELSE LET k == CHOOSE k \in DOMAIN s : \A j \in DOMAIN s : s[k] <= s[j]
         IN  <<s[k]>> \o SortedReverse_Ascending(RemoveAt(s, k))

\* sorted(axes, reverse=True)
RECURSIVE SortedReverse(_)
SortedReverse(s) ==
    IF s = <<>> THEN <<>>
    ELSE LET k == CHOOSE k \in DOMAIN s :
                      /\ \A j \in DOMAIN s : s[j] <= s[k]
                      /\ \A j \in 1..(k - 1) : s[j] < s[k]
         IN  <<s[k]>> \o SortedReverse(RemoveAt(s, k))

NormalizeAxes(axes, ndim) == SortedReverse(ResolveAxes(WrapAxes(axes), ndim))

\* Variant: the rows cut without moving the axis to the front.
AxisFirst_NoMove(operand, axis, infers) ==
    IF axis \notin (-Ndim(operand))..(Ndim(operand) - 1) THEN Raise("AxisError")
    ELSE reshape(operand, <<PyIndex(operand.shape, axis), -1>>, infers)

\* Line 68: the axis moved to the front and the rest flattened, one row per
\* index along the axis.
AxisFirst(operand, axis, infers) ==
    LET moved == moveaxis(operand, axis, 0) IN
    IF ~moved.ok THEN moved
    ELSE reshape(moved, <<PyIndex(operand.shape, axis), -1>>, infers)

\* Line 68 asks for a reshape to (0, -1): the axis exists and is empty.
Ambiguous(operand, axis) ==
    /\ axis \in (-Ndim(operand))..(Ndim(operand) - 1)
    /\ PyIndex(operand.shape, axis) = 0

\* Variant: the fold started from the first row instead of init_value.
FoldRows_NoInitial(func, temp, init_value) ==
    IF Rows(temp) = <<>> THEN Raise("TypeError")
    ELSE functools_reduce(func, Tail(Rows(temp)), Head(Rows(temp)))

\* Line 69: the rows folded with func, starting from init_value.
FoldRows(func, temp, init_value) == functools_reduce(func, Rows(temp), init_value)

\* Line 70: the folded row in the operand's shape without the axis.
DropAxis(temp, operand, axis) ==
    reshape(temp, PySliceTo(operand.shape, axis)
                      \o PySliceFrom(operand.shape, axis + 1), FALSE)

\* One iteration of the loop: fold func along axis and drop that dimension.
LoopBody(operand, axis, func, init_value, infers) ==
    LET temp == AxisFirst(operand, axis, infers) IN
    IF ~temp.ok THEN temp
    ELSE DropAxis(FoldRows(func, temp, init_value), operand, axis)

\* Variant: the result returned in the dtype the folds produced.
Finish_NoCast(operand, axes, keepdims, op_dtype) ==
    IF keepdims THEN expand_dims(operand, axes) ELSE operand

\* The lines after the loop: the size-one dimensions, then the cast.
Finish(operand, axes, keepdims, op_dtype) ==
    LET kept == IF keepdims THEN expand_dims(operand, axes) ELSE operand
    IN  IF ~kept.ok THEN kept ELSE astype(kept, op_dtype)

\* The whole call as a function of its arguments and of the library's answer
\* to a reshape to (0, -1).
RECURSIVE Loop(_, _, _, _, _)
Loop(operand, axes, func, init_value, infers) ==
    IF axes = <<>> \/ ~operand.ok THEN operand
    ELSE Loop(LoopBody(operand, Head(axes), func, init_value, infers),
              Tail(axes), func, init_value, infers)

reduce(operand, init_value, func, axes, keepdims, infers) ==
    LET sorted == NormalizeAxes(axes, Ndim(operand))
        folded == Loop(operand, sorted, func, ivy_array(init_value), infers)
    IN  IF ~folded.ok THEN folded
        ELSE Finish(folded, sorted, keepdims, operand.dtype)

\* ------------------------------------------------------------------ inputs
\* The operand of the docstring example, [[1, 2, 3], [4, 5, 6]].
DocShape == <<2, 3>>

Shapes == UNION {[1..n -> 0..MaxDim] : n \in 1..MaxRank} \cup {DocShape}
DTypes == {"int16", "float32"}
InitValues == {0, 1}

\* The elements 1, 2, 3, ... in row-major order.
Iota(shape) == [j \in 1..Prod(shape) |-> j]
Operands(dtypes) == {Arr(s, Iota(s), d) : s \in Shapes, d \in dtypes}

\* axes is an int or a sequence of ints, possibly negative, out of range or
\* repeated.
AxisVals(ndim) == (-(ndim + 2))..ndim
SeqsUpTo(S, n) == UNION {[1..k -> S] : k \in 0..n}
AxesArgs(ndim) ==
    {[isInt |-> TRUE, seq |-> <<a>>] : a \in AxisVals(ndim)}
    \cup {[isInt |-> FALSE, seq |-> s] : s \in SeqsUpTo(AxisVals(ndim), MaxRank)}

\* The axes name dimensions the operand has, each at most once.
DistinctInRange(axes, ndim) ==
    /\ \A k \in DOMAIN axes.seq : axes.seq[k] \in (-ndim)..(ndim - 1)
    /\ \A j, k \in DOMAIN axes.seq :
           j # k => (axes.seq[j] - axes.seq[k]) % ndim # 0

\* Calls with well-formed axes on an int16 operand, every func and init_value.
Inputs ==
    UNION {[operand : {x}, init_value : InitValues, func : Funcs,
            axes : {a \in AxesArgs(Ndim(x)) : DistinctInRange(a, Ndim(x))},
            keepdims : BOOLEAN] : x \in Operands({"int16"})}

\* Calls with any axes argument on an operand of either dtype, adding from 0.
InputsAnyAxes ==
    UNION {[operand : {x}, init_value : {0}, func : {"add"},
            axes : AxesArgs(Ndim(x)), keepdims : BOOLEAN] : x \in Operands(DTypes)}

\* ------------------------------------------------------------------- state
\* backend is the library's answer to a reshape to (0, -1), "unasked" until a
\* call makes one.
VARIABLES pc, args, axes, i, operand, init_value, op_dtype, ret, backend
vars == <<pc, args, axes, i, operand, init_value, op_dtype, ret, backend>>

None == Raise("None")

Entry ==
    /\ pc = "entry"
    /\ operand = args.operand
    /\ axes = <<>>
    /\ i = 0
    /\ init_value = None
    /\ op_dtype = ""
    /\ ret = None
    /\ backend = "unasked"

Init == args \in Inputs /\ Entry
InitAnyAxes == args \in InputsAnyAxes /\ Entry

\* Lines 55-59: the axes normalised and sorted, the initial value wrapped,
\* the operand's dtype remembered.
Enter ==
    /\ pc = "entry"
    /\ axes' = NormalizeAxes(args.axes, Ndim(operand))
    /\ init_value' = ivy_array(args.init_value)
    /\ op_dtype' = operand.dtype
    /\ i' = 1
    /\ pc' = "loop"
    /\ UNCHANGED <<args, operand, ret, backend>>

\* Lines 67-70: one iteration of `for axis in axes`.
Iterate ==
    /\ pc = "loop"
    /\ i <= Len(axes)
    /\ backend' \in IF Ambiguous(operand, axes[i]) /\ backend = "unasked"
                    THEN Backends ELSE {backend}
    /\ LET r == LoopBody(operand, axes[i], args.func, init_value,
                         backend' = "infers") IN
       IF r.ok
       THEN /\ operand' = r
            /\ i' = i + 1
            /\ UNCHANGED <<pc, ret>>
       ELSE /\ ret' = r
            /\ pc' = "raised"
            /\ UNCHANGED <<operand, i>>
    /\ UNCHANGED <<args, axes, init_value, op_dtype>>

\* Lines 71-73: keepdims, the cast and the return.
Return ==
    /\ pc = "loop"
    /\ i > Len(axes)
    /\ ret' = Finish(operand, axes, args.keepdims, op_dtype)
    /\ pc' = IF ret'.ok THEN "returned" ELSE "raised"
    /\ UNCHANGED <<args, axes, i, operand, init_value, op_dtype, backend>>

Next == Enter \/ Iterate \/ Return

Spec == Init /\ [][Next]_vars
SpecAnyAxes == InitAnyAxes /\ [][Next]_vars

\* The call has ended, with a result or with an exception.
Ended == pc \in {"returned", "raised"}

\* The step-by-step run and the function of the arguments agree.
RunIsReduce ==
    Ended => ret = reduce(args.operand, args.init_value, args.func, args.axes,
                          args.keepdims, backend = "infers")

\* --------------------------------------------------- what the claims speak of
S == args.operand.shape
NdimS == Len(S)
\* The set of axes the call names, after negative values have had ndim added.
Resolved == ResolveAxes(WrapAxes(args.axes), NdimS)
AxisSet == Range(Resolved)
WellFormedAxes == DistinctInRange(args.axes, NdimS)
\* No reshape of the call was refused for a -1 beside a 0.
NotRefused == backend # "refuses"

\* shape with the entries at the (0-based) indices in A removed.
RECURSIVE Without(_, _, _)
Without(shape, A, p) ==
    IF shape = <<>> THEN <<>>
    ELSE (IF p \in A THEN <<>> ELSE <<Head(shape)>>) \o Without(Tail(shape), A, p + 1)
\* shape with the entries at the indices in A replaced by 1.
OnesAt(shape, A) == [k \in DOMAIN shape |-> IF (k - 1) \in A THEN 1 ELSE shape[k]]

\* The left fold of the scalar function over a sequence of elements.
RECURSIVE FoldLeft(_, _, _)
FoldLeft(func, acc, elems) ==
    IF elems = <<>> THEN acc
    ELSE FoldLeft(func, Scalar(func, acc, Head(elems)), Tail(elems))

\* The elements of x along axis k (0-based) for the combination of the other
\* indices that has flat index j (0-based) in the shape without axis k.
Along(x, k, j) ==
    LET inner == Prod(SubSeq(x.shape, k + 2, Len(x.shape)))
        n     == x.shape[k + 1]
    IN  [t \in 1..n |-> x.data[(j \div inner) * n * inner + (t - 1) * inner
                               + (j % inner) + 1]]

\* The result of folding x along the single axis k, element by element.
FoldAlong(x, k, func, init) ==
    [j \in 1..Prod(Without(x.shape, {k}, 0)) |->
        FoldLeft(func, init, Along(x, k, j - 1))]

DocOperand == args.operand.shape = DocShape /\ args.init_value = 0 /\ args.func = "add"

\* C1 (in the calls no reshape of which was refused for a -1 beside a 0): with
\* distinct in-range axes and keepdims=False the call returns an array whose
\* shape is S without the entries at the reduced indices.
C1_ShapeLaw ==
    (Ended /\ WellFormedAxes /\ ~args.keepdims /\ NotRefused)
        => (pc = "returned" /\ ret.shape = Without(S, AxisSet, 0))

\* C2: for a single in-range axis k every element of the result is the left
\* fold of func, seeded with init_value, over the operand's elements along k
\* in increasing index order; the docstring operand gives [5,7,9] along axis 0
\* and [6,15] along axis 1.  A call whose axis is not empty returns.
C2_SingleAxisFold ==
    (Ended /\ WellFormedAxes /\ Len(Resolved) = 1) =>
        LET k == Resolved[1] IN
        /\ S[k + 1] >= 1 => pc = "returned"
        /\ pc = "returned" =>
               /\ ret.data = FoldAlong(args.operand, k, args.func, args.init_value)
               /\ DocOperand /\ k = 0 => ret.data = <<5, 7, 9>>
               /\ DocOperand /\ k = 1 => ret.data = <<6, 15>>

C2_Witness ==
    /\ pc = "returned" /\ WellFormedAxes /\ ~args.keepdims /\ DocOperand
    /\ Resolved = <<0>> /\ ret.data = <<5, 7, 9>>

\* C3: the docstring example: the docstring operand reduced with add from 0
\* gives [6, 15] along axis 0 and [5, 7, 9] along axis 1.
C3_DocstringExample ==
    (pc = "returned" /\ DocOperand /\ ~args.keepdims /\ args.axes.isInt) =>
        /\ args.axes.seq = <<0>> => ret.data = <<6, 15>>
        /\ args.axes.seq = <<1>> => ret.data = <<5, 7, 9>>

\* axes names every dimension of the operand, each once.
AllAxes == WellFormedAxes /\ AxisSet = 0..(NdimS - 1)
NonEmpty == \A k \in DOMAIN S : S[k] >= 1
\* The left fold of func over all elements in row-major order, from init_value.
FlatFold == FoldLeft(args.func, args.init_value, args.operand.data)

\* C4 (as stated, on operands without an empty dimension): with axes covering
\* every dimension and keepdims=False the result is 0-dimensional and equals a
\* single left fold of func over all elements in row-major order, starting from
\* init_value, for every init_value and func.
C4_AllAxesAsStated ==
    (Ended /\ AllAxes /\ ~args.keepdims /\ NonEmpty)
        => (pc = "returned" /\ ret.shape = <<>> /\ ret.data = <<FlatFold>>)

\* C4 (amended): the result is 0-dimensional; it equals the flat fold when
\* init_value is an identity element of an associative func (add from 0), or
\* when the operand has one dimension.
C4_AllAxes ==
    (Ended /\ AllAxes /\ ~args.keepdims /\ NonEmpty) =>
        /\ pc = "returned" /\ ret.shape = <<>>
        /\ ((args.func = "add" /\ args.init_value = 0) \/ NdimS = 1)
              => ret.data = <<FlatFold>>

C4_Witness ==
    /\ pc = "returned" /\ AllAxes /\ ~args.keepdims
    /\ S = DocShape /\ args.func = "add" /\ args.init_value = 0
    /\ ret.shape = <<>> /\ ret.data = <<21>>

\* The outcome of the same call with keepdims=False.
WithoutKeepdims ==
    reduce(args.operand, args.init_value, args.func, args.axes, FALSE,
           backend = "infers")

\* C5 (in the calls no reshape of which was refused for a -1 beside a 0): with
\* keepdims=True and distinct in-range axes the call returns an array of the
\* operand's rank whose shape is S with each reduced entry replaced by 1 at
\* its original position, holding the elements of the keepdims=False result.
C5_Keepdims ==
    (Ended /\ WellFormedAxes /\ args.keepdims /\ NotRefused) =>
        /\ pc = "returned"
        /\ Len(ret.shape) = NdimS
        /\ ret.shape = OnesAt(S, AxisSet)
        /\ WithoutKeepdims.ok /\ ret.data = WithoutKeepdims.data

\* C6: a call one of whose axes, after negative values have had ndim added,
\* lies outside [0, ndim) fails and returns nothing.
C6_OutOfRangeFails ==
    (Ended /\ \E k \in DOMAIN Resolved : Resolved[k] \notin 0..(NdimS - 1))
        => pc = "raised"

\* C7 (on axes that all lie in range): a call whose axes name the same
\* dimension more than once is rejected, for either value of keepdims.
C7_DuplicatesRejected ==
    (/\ Ended
     /\ \A k \in DOMAIN Resolved : Resolved[k] \in 0..(NdimS - 1)
     /\ \E j, k \in DOMAIN Resolved : j # k /\ Resolved[j] = Resolved[k])
        => pc = "raised"

\* C8: a result the call returns has the dtype the operand had on entry,
\* whatever dtype the folds produced.
C8_DtypeLaw == pc = "returned" => ret.dtype = args.operand.dtype

C8_Witness ==
    /\ pc = "returned" /\ Len(axes) >= 1
    /\ operand.dtype # args.operand.dtype
    /\ ret.dtype = args.operand.dtype

\* The orders in which the axes of the call can be declared.
Perms(s) ==
    {[k \in DOMAIN s |-> s[f[k]]] :
        f \in {g \in [DOMAIN s -> DOMAIN s] : Range(g) = DOMAIN s}}

\* C9: two calls that differ only in the order of their distinct in-range axes
\* have the same outcome, shape and elements.
C9_OrderIndependence ==
    (Ended /\ WellFormedAxes) =>
        \A p \in Perms(args.axes.seq) :
            reduce(args.operand, args.init_value, args.func,
                   [isInt |-> FALSE, seq |-> p], args.keepdims,
                   backend = "infers") = ret

C9_Witness ==
    /\ pc = "returned" /\ WellFormedAxes /\ NonEmpty
    /\ Len(args.axes.seq) = 2 /\ args.axes.seq[1] < args.axes.seq[2]
    /\ args.func = "subtract" /\ S = DocShape

\* One step taken from the start of a loop iteration of a call with distinct
\* in-range axes.
C10_LoopStep ==
    (pc = "loop" /\ i <= Len(axes) /\ WellFormedAxes) =>
        /\ \A k \in DOMAIN axes : (k < i => axes[k] > axes[i])
                               /\ (k > i => axes[k] < axes[i])
        /\ axes[i] + 1 <= Len(operand.shape)
        /\ SubSeq(operand.shape, 1, axes[i] + 1) = SubSeq(S, 1, axes[i] + 1)
        /\ i' = i + 1 => operand'.shape = RemoveAt(operand.shape, axes[i] + 1)

\* C10: the loop takes the axes from the highest to the lowest; when an
\* iteration starts, the current shape agrees with the operand's shape at the
\* positions 0..axis; an iteration that completes deletes position axis.
C10_LoopInvariant == [][C10_LoopStep]_vars

C10_Witness ==
    /\ pc = "loop" /\ i = 2 /\ Len(axes) = 2 /\ WellFormedAxes
    /\ S = DocShape /\ operand.shape = <<2>>

====
